---- MODULE Spec2Model ----
(***************************************************************************)
(* Model of the FDA product-specific-guidance scraper:                     *)
(*   find_updated_ais.py  (main, create_output_directory,                  *)
(*                         get_rld_search_numbers,                         *)
(*                         get_content_current_year_and_month,             *)
(*                         ai_is_of_interest,                              *)
(*                         download_specific_guidance_pdf)                 *)
(*   common.py            (create_output_directory, download_single_pdf)   *)
(*   download_all_pdfs.py (main)                                           *)
(*                                                                         *)
(* common.py's own download_specific_guidance_pdf (55-80) is called by      *)
(* neither script and is not part of the state machine.                    *)
(*                                                                         *)
(* Python strings are sequences of one-character strings; the reference    *)
(* page is a sequence of tokens in which each separator the parser splits  *)
(* on ('Content current as of', '</time>', '">', '="') is one token.       *)
(***************************************************************************)
EXTENDS Integers, Sequences, FiniteSets, TLC

\* ------------------------------------------------------------------ bounds
MaxRecords == 2      \* longest list of scraped active ingredients
MaxOtherRun == 2     \* highest run number of a directory present beforehand

\* --------------------------------------------------------- Python built-ins
Digits == <<"0", "1", "2", "3", "4", "5", "6", "7", "8", "9">>
IsDigit(c) == \E i \in 1..10 : Digits[i] = c
DigitVal(c) == (CHOOSE i \in 1..10 : Digits[i] = c) - 1
IsSpace(c) == c \in {" ", "\t"}

\* str.split(sep): the pieces between the occurrences of sep, empty pieces kept
RECURSIVE split(_, _)
split(s, sep) ==
  IF \A i \in 1..Len(s) : s[i] # sep
  THEN <<s>>
  ELSE LET k == CHOOSE i \in 1..Len(s) : s[i] = sep /\ \A j \in 1..(i - 1) : s[j] # sep
       IN  <<SubSeq(s, 1, k - 1)>> \o split(SubSeq(s, k + 1, Len(s)), sep)

RECURSIVE lstrip(_)
lstrip(s) == IF s # <<>> /\ IsSpace(Head(s)) THEN lstrip(Tail(s)) ELSE s

RECURSIVE rstrip(_)
rstrip(s) ==
  IF s # <<>> /\ IsSpace(s[Len(s)]) THEN rstrip(SubSeq(s, 1, Len(s) - 1)) ELSE s

\* str.strip()
strip(s) == rstrip(lstrip(s))

RECURSIVE DigitsToNat(_)
DigitsToNat(s) ==
  IF s = <<>> THEN 0 ELSE 10 * DigitsToNat(SubSeq(s, 1, Len(s) - 1)) + DigitVal(s[Len(s)])

\* int(s) for a string: surrounding whitespace is ignored, the rest must be
\* decimal digits; anything else is a ValueError (ok = FALSE). The strings of
\* the model hold no sign and no underscore.
int(s) ==
  LET t == strip(s)
  IN  IF t # <<>> /\ \A i \in 1..Len(t) : IsDigit(t[i])
      THEN [ok |-> TRUE, v |-> DigitsToNat(t)]
      ELSE [ok |-> FALSE, v |-> 0]

RECURSIVE NatToStr(_)
NatToStr(n) == IF n < 10 THEN <<Digits[n + 1]>> ELSE NatToStr(n \div 10) \o <<Digits[(n % 10) + 1]>>

\* datetime.date(year, month, 1) raises ValueError outside these ranges
DateOk(year, month) == year \in 1..9999 /\ month \in 1..12

\* date(y1, m1, 1) >= date(y2, m2, 1)
DateGE(y1, m1, y2, m2) == y1 > y2 \/ (y1 = y2 /\ m1 >= m2)

\* ------------------------------------------------------------ Python values
PyNone == [t |-> "none", n |-> 0, s |-> <<>>]
PyInt(n) == [t |-> "int", n |-> n, s |-> <<>>]
PyStr(s) == [t |-> "str", n |-> 0, s |-> s]

\* str(value)
str(value) ==
  CASE value.t = "int" -> NatToStr(value.n)
    [] value.t = "str" -> value.s
    [] OTHER -> <<"N", "o", "n", "e">>

\* x in list
InList(x, list) == \E i \in 1..Len(list) : list[i] = x

\* ------------------------------------------- get_rld_search_numbers (112-123)
\* one entry per line of the input file, each line stripped
get_rld_search_numbers(lines) == [i \in 1..Len(lines) |-> strip(lines[i])]

\* ------------------------------- get_content_current_year_and_month (126-156)
CCAO == "Content current as of"
TimeEnd == "</time>"
QuoteGt == "\">"
EqQuote == "=\""

NoneNone == [year |-> PyNone, month |-> PyNone]

\* The chain of splits; an index past the end of a list is the IndexError and a
\* wrong number of parts or a failing int() the ValueError, both caught: what
\* was assigned to year and month before the exception is what is returned.
get_content_current_year_and_month(resp_text) ==
  LET chunks_part_1 == split(resp_text, CCAO)
  IN  IF Len(chunks_part_1) < 2 THEN NoneNone ELSE
  LET chunks_part_2 == split(chunks_part_1[2], TimeEnd)
      chunks_part_3 == split(chunks_part_2[1], QuoteGt)
  IN  IF Len(chunks_part_3) < 2 THEN NoneNone ELSE
  LET chunks_part_4 == split(chunks_part_3[2], EqQuote)
  IN  IF Len(chunks_part_4) < 2 THEN NoneNone ELSE
  LET iso_datetime == chunks_part_4[2]
      year_month_day_and_time == split(iso_datetime, "T")
      parts == split(year_month_day_and_time[1], "-")
  IN  IF Len(parts) # 3 THEN NoneNone ELSE
  LET y == int(parts[1])
      m == int(parts[2])
  IN  IF ~y.ok THEN [year |-> PyStr(parts[1]), month |-> PyStr(parts[2])]
      ELSE IF ~m.ok THEN [year |-> PyInt(y.v), month |-> PyStr(parts[2])]
      ELSE [year |-> PyInt(y.v), month |-> PyInt(m.v)]

\* only the None check of line 38, the date of line 41 not built
BaselineError_NoneOnly(ym) ==
  IF ym.year.t = "none" \/ ym.month.t = "none" THEN "Exception" ELSE ""

\* main, lines 37-41: the None check and the datetime.date construction; ""
\* when the baseline date is built, else the exception that ends the run
BaselineError(ym) ==
  IF ym.year.t = "none" \/ ym.month.t = "none" THEN "Exception"
  ELSE IF ym.year.t # "int" \/ ym.month.t # "int" THEN "TypeError"
  ELSE IF ~DateOk(ym.year.n, ym.month.n) THEN "ValueError"
  ELSE ""

\* --------------------------------------------------- ai_is_of_interest (159-203)
rld_arg_type(rld_value) ==
  CASE rld_value.t = "int" -> "int"
    [] rld_value.t = "str" -> "str"
    [] OTHER -> "other"

\* the empty pieces of the split filtered out
rld_values_DropEmpty(rld_value) ==
  IF rld_value.t = "str" /\ InList(" ", rld_value.s)
  THEN LET pieces == split(rld_value.s, " ")
       IN  SelectSeq([i \in 1..Len(pieces) |-> strip(pieces[i])], LAMBDA t : t # <<>>)
  ELSE <<str(rld_value)>>

rld_values(rld_value) ==
  IF rld_value.t = "str" /\ InList(" ", rld_value.s)
  THEN LET pieces == split(rld_value.s, " ")
       IN  [i \in 1..Len(pieces) |-> strip(pieces[i])]
  ELSE <<str(rld_value)>>

TokenMatch(rld_value, rld_search_numbers) ==
  \E i \in 1..Len(rld_values(rld_value)) :
      InList(rld_values(rld_value)[i], rld_search_numbers)

\* the parts taken as numbers without int() checking them
DateError_NoNumericCheck(unparsed_month_year) ==
  IF unparsed_month_year.t # "str" THEN "AttributeError"
  ELSE IF Len(split(unparsed_month_year.s, "/")) # 2 THEN "ValueError"
  ELSE ""

\* lines 197-199: "" when the date is built, else the exception raised
DateError(unparsed_month_year) ==
  IF unparsed_month_year.t # "str" THEN "AttributeError"
  ELSE LET parts == split(unparsed_month_year.s, "/")
       IN  IF Len(parts) # 2 THEN "ValueError"
           ELSE IF ~int(parts[1]).ok \/ ~int(parts[2]).ok THEN "ValueError"
           ELSE IF ~DateOk(int(parts[2]).v, int(parts[1]).v) THEN "ValueError"
           ELSE ""

\* the early return of lines 194-195 left out
ShortCircuit_Never(is_of_interest) == FALSE

\* lines 194-195
ShortCircuit(is_of_interest) == is_of_interest = FALSE

\* the comparison assigned to the flag instead of only raising it
AfterFreshness_Revokes(is_of_interest, fresh) == fresh

\* lines 200-201: the only effect of the comparison is to set the flag to True
AfterFreshness(is_of_interest, fresh) == IF fresh THEN TRUE ELSE is_of_interest

\* Besides what is returned (is_of_interest, rld_arg_type) or raised (err), the
\* record keeps the local rld_values
ai_is_of_interest(active_ingredient, current_content_updated_date, rld_search_numbers) ==
  LET rld_value == active_ingredient.RLD
      kind == rld_arg_type(rld_value)
      tokens == rld_values(rld_value)
      is_of_interest == TokenMatch(rld_value, rld_search_numbers)
      date == active_ingredient.DATE
  IN  IF ShortCircuit(is_of_interest)
      THEN [err |-> "", is_of_interest |-> is_of_interest, rld_arg_type |-> kind,
            rld_values |-> tokens]
      ELSE IF DateError(date) # ""
      THEN [err |-> DateError(date), is_of_interest |-> is_of_interest,
            rld_arg_type |-> kind, rld_values |-> tokens]
      ELSE LET parts == split(date.s, "/")
               fresh == DateGE(int(parts[2]).v, int(parts[1]).v,
                               current_content_updated_date.year,
                               current_content_updated_date.month)
           IN  [err |-> "", is_of_interest |-> AfterFreshness(is_of_interest, fresh),
                rld_arg_type |-> kind, rld_values |-> tokens]

\* ----------------------------------------------------------------- fetching
\* What the server and the network do with one GET
Outcomes == {"ok", "http_error", "conn_error", "timeout"}

\* pdf_url.split('/')[-1]
filename(pdf_url) == LET parts == split(pdf_url, "/") IN parts[Len(parts)]

\* the file opened for appending: what was there is kept
WriteFile_KeepsOld(fs, name, url, body) ==
  fs \cup {[name |-> name, url |-> url, body |-> body]}

\* open(write_directory/filename, 'wb').write(content): a file of that name
\* is replaced
WriteFile(fs, name, url, body) ==
  {f \in fs : f.name # name} \cup {[name |-> name, url |-> url, body |-> body]}

\* defaultdict(bool): reading a missing key inserts it with False
Lookup(ledger, key) == IF key \in DOMAIN ledger THEN ledger[key] ELSE FALSE
Touch(ledger, key) == [k \in DOMAIN ledger \cup {key} |-> Lookup(ledger, k)]
Mark(ledger, key) == [k \in DOMAIN ledger \cup {key} |-> IF k = key THEN TRUE ELSE Lookup(ledger, k)]

\* common.py download_single_pdf (83-114): the session raises HTTPError for an
\* error status (the response hook), and every requests exception is printed
\* and dropped; url.split is outside the try
download_single_pdf(url, fs, outcome) ==
  IF url.t # "str"
  THEN [err |-> "AttributeError", files |-> fs, fetched |-> FALSE]
  ELSE IF outcome = "ok"
  THEN [err |-> "", files |-> WriteFile(fs, filename(url.s), url.s, "pdf"), fetched |-> TRUE]
  ELSE [err |-> "", files |-> fs, fetched |-> TRUE]

\* find_updated_ais.py lines 221-223: a plain requests.get, no status check and
\* no try: an error status still yields a response, whose body is written;
\* a connection failure or a timeout raises
GetAndWrite(pdf_url, fs, outcome) ==
  CASE outcome = "ok" ->
         [err |-> "", files |-> WriteFile(fs, filename(pdf_url), pdf_url, "pdf")]
    [] outcome = "http_error" ->
         [err |-> "", files |-> WriteFile(fs, filename(pdf_url), pdf_url, "error")]
    [] outcome = "conn_error" -> [err |-> "ConnectionError", files |-> fs]
    [] OTHER -> [err |-> "Timeout", files |-> fs]

\* the mark of line 224 forgotten
MarkDownloaded_NoMark(ledger, rld_value) == Touch(ledger, rld_value)

\* line 224
MarkDownloaded(ledger, rld_value) == Mark(ledger, rld_value)

\* find_updated_ais.py download_specific_guidance_pdf (206-225), the one main
\* calls
download_specific_guidance_pdf(active_ingredient, fs, ledger, outcome) ==
  LET rld_value == active_ingredient.RLD
      pdf_url == active_ingredient.URL
  IN  IF Lookup(ledger, rld_value) # FALSE
      THEN [err |-> "", files |-> fs, ledger |-> ledger, fetched |-> FALSE]
      ELSE IF pdf_url.t # "str"
      THEN [err |-> "AttributeError", files |-> fs,
            ledger |-> Touch(ledger, rld_value), fetched |-> FALSE]
      ELSE LET got == GetAndWrite(pdf_url.s, fs, outcome)
           IN  IF got.err # ""
               THEN [err |-> got.err, files |-> fs,
                     ledger |-> Touch(ledger, rld_value), fetched |-> TRUE]
               ELSE [err |-> "", files |-> got.files,
                     ledger |-> MarkDownloaded(ledger, rld_value), fetched |-> TRUE]

\* ------------------------------------------------------------------- inputs
S12 == <<"1", "2">>
S34 == <<"3", "4">>
S56 == <<"5", "6">>

U1 == PyStr(<<"h", "/", "a", "/", "x">>)
U2 == PyStr(<<"h", "/", "b", "/", "x">>)
U3 == PyStr(<<"h", "/", "y">>)

D_03_2024 == PyStr(<<"0", "3", "/", "2", "0", "2", "4">>)
D_01_2023 == PyStr(<<"0", "1", "/", "2", "0", "2", "3">>)
D_13_2024 == PyStr(<<"1", "3", "/", "2", "0", "2", "4">>)
D_1_2_2024 == PyStr(<<"1", "/", "2", "/", "2", "0", "2", "4">>)
D_xx_2024 == PyStr(<<"x", "x", "/", "2", "0", "2", "4">>)
D_noslash == PyStr(<<"2", "0", "2", "4">>)

AI(url, rld, date) == [URL |-> url, RLD |-> rld, DATE |-> date]

\* The rows the scraped tables can hold
Pool ==
  { AI(U1, PyInt(12), D_03_2024),
    AI(U3, PyInt(12), D_01_2023),
    AI(U2, PyStr(S12 \o <<" ">> \o S34), D_01_2023),
    AI(U3, PyStr(S34), PyNone),
    AI(U1, PyStr(<<" ">> \o S12), D_noslash),
    AI(U2, PyStr(<<"\t">> \o S56), D_1_2_2024),
    AI(PyNone, PyNone, D_03_2024),
    AI(U2, PyInt(34), D_xx_2024),
    AI(U1, PyStr(S56), D_13_2024) }

\* The lines of the RLD identifiers file
RldFiles ==
  { <<S12>>,
    <<<<" ">> \o S34 \o <<" ">>, S56, <<"N", "o", "n", "e">>, <<>>>> }

Iso(y, m, d) == y \o <<"-">> \o m \o <<"-">> \o d \o <<"T", "z">>
Fence(iso, closing) ==
  <<"<p>", CCAO, "<div class", EqQuote, "c", QuoteGt, "<time datetime", EqQuote>>
    \o iso \o <<QuoteGt, "txt">> \o closing

\* The reference page as served
Pages ==
  { Fence(Iso(<<"2","0","2","4">>, <<"0","2">>, <<"1","5">>), <<TimeEnd>>),
    Fence(Iso(<<"2","0","2","4">>, <<"0","2">>, <<"1","5">>), <<>>),
    Fence(Iso(<<"2","0","2","4">>, <<"1","3">>, <<"0","1">>), <<TimeEnd>>),
    Fence(Iso(<<"2","0","2","4">>, <<"x","x">>, <<"0","1">>), <<TimeEnd>>),
    Fence(Iso(<<"y","y","y","y">>, <<"0","2">>, <<"0","1">>), <<TimeEnd>>),
    Fence(<<"2","0","2","4">>, <<TimeEnd>>),
    <<"<p>", CCAO, "<time datetime", EqQuote, "2","0","2","4","-","0","2","-","1","5",
      QuoteGt, "txt", TimeEnd>>,
    <<"<p>", "moved", "</p>">> }

Today == "2024-05-01"
Yesterday == "2024-04-30"
Dir(date, n) == [date |-> date, run |-> n]

\* '{}-{:02d}-{:02d}-run-{}'.format(year, month, day, run_number)
FormatName(n) == Dir(Today, n)

\* The directories present when the script is launched
InitialDirs ==
  { {Dir(Yesterday, 1)} \cup {Dir(Today, n) : n \in S} : S \in SUBSET (1..MaxOtherRun) }

Kinds == {"int", "str", "other"}

RECURSIVE SeqsUpTo(_, _)
SeqsUpTo(S, n) ==
  IF n = 0 THEN {<<>>}
  ELSE LET shorter == SeqsUpTo(S, n - 1)
       IN  shorter \cup {Append(q, x) : q \in {r \in shorter : Len(r) = n - 1}, x \in S}

Reorderings(q) ==
  { [i \in 1..Len(q) |-> q[p[i]]] :
      p \in {f \in [1..Len(q) -> 1..Len(q)] : \A i, j \in 1..Len(q) : f[i] = f[j] => i = j} }

\* -------------------------------------------------------------------- state
VARIABLES
  prog,                  \* the script launched
  argv,                  \* sys.argv, with the lines of the file it names
  existing,              \* the directories present when the script was launched
  dirs,                  \* the directories on disk
  pc,                    \* where main is
  err,                   \* the exception that ended main, "" if none
  run_number,            \* create_output_directory's local
  directory_name,        \* the working directory
  rld_search_numbers,
  resp_text,             \* the reference page as fetched
  current,               \* current_year, current_month
  active_ingredients,
  idx,                   \* position of the for loop over active_ingredients
  downloaded_rld_pdfs,
  rld_type_counter,
  rld_type_lists,
  files,                 \* the files of directory_name
  fetches,               \* the GETs of documents issued, in order
  results                \* what each call of ai_is_of_interest gave, in order

vars == <<prog, argv, existing, dirs, pc, err, run_number, directory_name,
          rld_search_numbers, resp_text, current, active_ingredients, idx,
          downloaded_rld_pdfs, rld_type_counter, rld_type_lists, files, fetches,
          results>>

NoDir == Dir("", 0)

\* sys.argv: the script alone, or the script and the RLD file (its lines)
NoArgv == [len |-> 1, lines |-> <<>>]
Argv(lines) == [len |-> 2, lines |-> lines]

Init ==
  /\ \/ prog = "find_updated_ais" /\ argv \in {Argv(lines) : lines \in RldFiles} \cup {NoArgv}
     \/ prog = "download_all_pdfs" /\ argv = NoArgv
  /\ existing \in InitialDirs
  /\ dirs = existing
  /\ pc = "mkdir"
  /\ err = ""
  /\ run_number = 0
  /\ directory_name = NoDir
  /\ rld_search_numbers = <<>>
  /\ resp_text = <<>>
  /\ current = [year |-> 0, month |-> 0]
  /\ active_ingredients = <<>>
  /\ idx = 0
  /\ downloaded_rld_pdfs = <<>>
  /\ rld_type_counter = [k \in Kinds |-> 0]
  /\ rld_type_lists = [k \in Kinds |-> <<>>]
  /\ files = {}
  /\ fetches = <<>>
  /\ results = <<>>

\* --------------------------------- create_output_directory (both copies alike)
isdir(name) == name \in dirs

\* lines 97-101: run-1 is tried first
CreateFirst ==
  /\ pc = "mkdir"
  /\ run_number' = 1
  /\ directory_name' = FormatName(1)
  /\ IF ~isdir(FormatName(1))
     THEN /\ dirs' = dirs \cup {FormatName(1)}
          /\ pc' = IF prog = "find_updated_ais" THEN "args" ELSE "scrape"
     ELSE /\ pc' = "mkdir_loop"
          /\ UNCHANGED dirs
  /\ UNCHANGED <<prog, argv, existing, err, rld_search_numbers, resp_text, current,
                 active_ingredients, idx, downloaded_rld_pdfs, rld_type_counter,
                 rld_type_lists, files, fetches, results>>

\* run_number advanced by two in a turn of the loop
CreateNext_SkipsOne ==
  /\ pc = "mkdir_loop"
  /\ isdir(directory_name)
  /\ run_number' = run_number + 2
  /\ directory_name' = FormatName(run_number + 2)
  /\ UNCHANGED <<prog, argv, existing, dirs, pc, err, rld_search_numbers, resp_text,
                 current, active_ingredients, idx, downloaded_rld_pdfs,
                 rld_type_counter, rld_type_lists, files, fetches, results>>

\* lines 103-105: one turn of the while loop
CreateNext ==
  /\ pc = "mkdir_loop"
  /\ isdir(directory_name)
  /\ run_number' = run_number + 1
  /\ directory_name' = FormatName(run_number + 1)
  /\ UNCHANGED <<prog, argv, existing, dirs, pc, err, rld_search_numbers, resp_text,
                 current, active_ingredients, idx, downloaded_rld_pdfs,
                 rld_type_counter, rld_type_lists, files, fetches, results>>

\* line 106: the loop has ended, the directory is made
CreateMkdir ==
  /\ pc = "mkdir_loop"
  /\ ~isdir(directory_name)
  /\ dirs' = dirs \cup {directory_name}
  /\ pc' = IF prog = "find_updated_ais" THEN "args" ELSE "scrape"
  /\ UNCHANGED <<prog, argv, existing, err, run_number, directory_name,
                 rld_search_numbers, resp_text, current, active_ingredients, idx,
                 downloaded_rld_pdfs, rld_type_counter, rld_type_lists, files, fetches,
                 results>>

create_output_directory == CreateFirst \/ CreateNext \/ CreateMkdir

\* ----------------------------------------------- find_updated_ais.py main
\* lines 31-34: without the argument main prints the usage and returns
ReadArgs ==
  /\ pc = "args"
  /\ IF argv.len < 2
     THEN pc' = "done" /\ UNCHANGED rld_search_numbers
     ELSE pc' = "baseline" /\ rld_search_numbers' = get_rld_search_numbers(argv.lines)
  /\ UNCHANGED <<prog, argv, existing, dirs, err, run_number, directory_name, resp_text,
                 current, active_ingredients, idx, downloaded_rld_pdfs,
                 rld_type_counter, rld_type_lists, files, fetches, results>>

\* lines 36-41: the reference page is fetched and parsed, the baseline date built
Baseline ==
  /\ pc = "baseline"
  /\ \E text \in Pages :
       LET ym == get_content_current_year_and_month(text)
       IN  /\ resp_text' = text
           /\ IF BaselineError(ym) # ""
              THEN /\ pc' = "aborted"
                   /\ err' = BaselineError(ym)
                   /\ UNCHANGED current
              ELSE /\ pc' = "scrape"
                   /\ current' = [year |-> ym.year.n, month |-> ym.month.n]
                   /\ UNCHANGED err
  /\ UNCHANGED <<prog, argv, existing, dirs, run_number, directory_name,
                 rld_search_numbers, active_ingredients, idx, downloaded_rld_pdfs,
                 rld_type_counter, rld_type_lists, files, fetches, results>>

\* lines 50-58 (download_all_pdfs.py 13-22): the rows of the letter pages, in
\* page order
Scrape ==
  /\ pc = "scrape"
  /\ active_ingredients' \in SeqsUpTo(Pool, MaxRecords)
  /\ idx' = 1
  /\ pc' = "loop"
  /\ UNCHANGED <<prog, argv, existing, dirs, err, run_number, directory_name,
                 rld_search_numbers, resp_text, current, downloaded_rld_pdfs,
                 rld_type_counter, rld_type_lists, files, fetches, results>>

Fetched(i, ai, outcome) ==
  [idx |-> i, key |-> ai.RLD, url |-> ai.URL, outcome |-> outcome]

\* lines 61-71: one turn of the for loop
ProcessRecord ==
  /\ pc = "loop"
  /\ prog = "find_updated_ais"
  /\ idx <= Len(active_ingredients)
  /\ LET active_ingredient == active_ingredients[idx]
         r == ai_is_of_interest(active_ingredient, current, rld_search_numbers)
     IN  /\ results' = Append(results, r)
         /\ IF r.err # ""
            THEN /\ pc' = "aborted"
                 /\ err' = r.err
                 /\ UNCHANGED <<idx, downloaded_rld_pdfs, rld_type_counter,
                                rld_type_lists, files, fetches>>
            ELSE /\ rld_type_counter' =
                      [rld_type_counter EXCEPT ![r.rld_arg_type] = @ + 1]
                 /\ rld_type_lists' =
                      [rld_type_lists EXCEPT
                         ![r.rld_arg_type] = Append(@, active_ingredient.RLD)]
                 /\ IF ~r.is_of_interest
                    THEN /\ idx' = idx + 1
                         /\ UNCHANGED <<pc, err, downloaded_rld_pdfs, files, fetches>>
                    ELSE \E outcome \in Outcomes :
                           LET d == download_specific_guidance_pdf(
                                      active_ingredient, files, downloaded_rld_pdfs,
                                      outcome)
                           IN  /\ downloaded_rld_pdfs' = d.ledger
                               /\ files' = d.files
                               /\ fetches' =
                                    IF d.fetched
                                    THEN Append(fetches,
                                                Fetched(idx, active_ingredient, outcome))
                                    ELSE fetches
                               /\ IF d.err # ""
                                  THEN pc' = "aborted" /\ err' = d.err /\ UNCHANGED idx
                                  ELSE idx' = idx + 1 /\ UNCHANGED <<pc, err>>
  /\ UNCHANGED <<prog, argv, existing, dirs, run_number, directory_name,
                 rld_search_numbers, resp_text, current, active_ingredients>>

\* ---------------------------------------------- download_all_pdfs.py main
\* lines 25-28: one turn of the for loop
DownloadRecord ==
  /\ pc = "loop"
  /\ prog = "download_all_pdfs"
  /\ idx <= Len(active_ingredients)
  /\ \E outcome \in Outcomes :
       LET active_ingredient == active_ingredients[idx]
           d == download_single_pdf(active_ingredient.URL, files, outcome)
       IN  /\ files' = d.files
           /\ fetches' = IF d.fetched
                         THEN Append(fetches, Fetched(idx, active_ingredient, outcome))
                         ELSE fetches
           /\ IF d.err # ""
              THEN pc' = "aborted" /\ err' = d.err /\ UNCHANGED idx
              ELSE idx' = idx + 1 /\ UNCHANGED <<pc, err>>
  /\ UNCHANGED <<prog, argv, existing, dirs, run_number, directory_name,
                 rld_search_numbers, resp_text, current, active_ingredients,
                 downloaded_rld_pdfs, rld_type_counter, rld_type_lists, results>>

\* the for loop is exhausted (find_updated_ais.py 73-79 print the tallies)
Finish ==
  /\ pc = "loop"
  /\ idx > Len(active_ingredients)
  /\ pc' = "done"
  /\ UNCHANGED <<prog, argv, existing, dirs, err, run_number, directory_name,
                 rld_search_numbers, resp_text, current, active_ingredients, idx,
                 downloaded_rld_pdfs, rld_type_counter, rld_type_lists, files, fetches,
                 results>>

Next ==
  \/ create_output_directory
  \/ ReadArgs
  \/ Baseline
  \/ Scrape
  \/ ProcessRecord
  \/ DownloadRecord
  \/ Finish

Spec == Init /\ [][Next]_vars

\* ------------------------------------------------------------------- claims
FindUpdated == prog = "find_updated_ais"

\* the record at position i has a token in the interest set
Matches(i) == TokenMatch(active_ingredients[i].RLD, rld_search_numbers)

\* a GET for the document of the record at position i has been issued
Attempted(i) == \E a \in 1..Len(fetches) : fetches[a].idx = i

\* the raw key of the record now at the head of the loop is marked in the ledger
HeadMarked ==
  /\ FindUpdated
  /\ pc = "loop"
  /\ idx <= Len(active_ingredients)
  /\ Lookup(downloaded_rld_pdfs, active_ingredients[idx].RLD) = TRUE

\* C1 (dedup): within a run of find_updated_ais no two GETs are issued for
\* records with the same raw RLD key, and a turn of the loop on a record whose
\* raw key is already marked True issues no GET and writes no file.
C1_Dedup ==
  /\ [](FindUpdated =>
          \A a, b \in 1..Len(fetches) : a < b => fetches[a].key # fetches[b].key)
  /\ [][HeadMarked => (fetches' = fetches /\ files' = files)]_vars

\* C1 witness: a record of interest was processed after a GET had been issued
\* for an earlier record with the same raw key.
C1_Witness ==
  /\ FindUpdated
  /\ \E i \in 1..Len(results) :
       /\ results[i].err = ""
       /\ results[i].is_of_interest
       /\ i < idx
       /\ \E a \in 1..Len(fetches) :
            fetches[a].idx < i /\ fetches[a].key = active_ingredients[i].RLD

RequestErrors == {"HTTPError", "ConnectionError", "Timeout", "RequestException"}

\* C2 (best effort): no run is ended by the failure of a document fetch: main is
\* never aborted by a requests exception raised out of the fetch.
C2_BestEffort == ~(pc = "aborted" /\ err \in RequestErrors)

\* date_recommended is a string of two '/'-separated integers that name a month
\* and a year datetime.date accepts
WellFormedDate(date) ==
  /\ date.t = "str"
  /\ LET parts == split(date.s, "/")
     IN  /\ Len(parts) = 2
         /\ int(parts[1]).ok /\ int(parts[1]).v \in 1..12
         /\ int(parts[2]).ok /\ int(parts[2]).v \in 1..9999

\* the record's date is earlier than the reference date
Stale(date) ==
  LET parts == split(date.s, "/")
  IN  \/ int(parts[2]).v < current.year
      \/ int(parts[2]).v = current.year /\ int(parts[1]).v < current.month

KindOf(raw) == IF raw.t = "int" THEN "int" ELSE IF raw.t = "str" THEN "str" ELSE "other"

\* C4 (short-circuit): every classified record none of whose tokens is in the
\* interest set gets (False, kind) returned and nothing raised, whatever its
\* date_recommended.
C4_ShortCircuit ==
  \A i \in 1..Len(results) :
     ~Matches(i) =>
       /\ results[i].err = ""
       /\ results[i].is_of_interest = FALSE
       /\ results[i].rld_arg_type = KindOf(active_ingredients[i].RLD)

\* C4 witness: a record without a matching token and without a well-formed date
\* was classified.
C4_Witness ==
  \E i \in 1..Len(results) :
     ~Matches(i) /\ ~WellFormedDate(active_ingredients[i].DATE)

\* the date is absent, does not split on '/' into two parts, or has a part that
\* is no integer
MalformedDate(date) ==
  \/ date.t # "str"
  \/ Len(split(date.s, "/")) # 2
  \/ \E k \in 1..2 : ~int(split(date.s, "/")[k]).ok

Tallied == rld_type_counter["int"] + rld_type_counter["str"] + rld_type_counter["other"]

\* C5 (malformed-date propagation): when a record with a token in the interest
\* set and a malformed date_recommended is classified, the call raises, the
\* exception ends main, the record is not tallied, and no later record is
\* classified or fetched.
C5_MalformedPropagates ==
  \A i \in 1..Len(results) :
     (Matches(i) /\ MalformedDate(active_ingredients[i].DATE)) =>
       /\ results[i].err # ""
       /\ pc = "aborted"
       /\ err = results[i].err
       /\ Len(results) = i
       /\ idx = i
       /\ Tallied = i - 1
       /\ Len(rld_type_lists["int"]) + Len(rld_type_lists["str"])
            + Len(rld_type_lists["other"]) = i - 1
       /\ \A a \in 1..Len(fetches) : fetches[a].idx < i

\* C5 witness: the run was ended by the malformed date of a matching record that
\* was not the last one.
C5_Witness ==
  \E i \in 1..Len(results) :
     /\ Matches(i)
     /\ MalformedDate(active_ingredients[i].DATE)
     /\ i < Len(active_ingredients)
     /\ pc = "aborted"

\* C6 (the ledger marks 'attempted'): once a GET has been issued for a record,
\* its raw key is marked True in the ledger, whether the GET succeeded or not.
C6_AttemptMarks ==
  FindUpdated =>
    \A a \in 1..Len(fetches) : Lookup(downloaded_rld_pdfs, fetches[a].key) = TRUE

RECURSIVE Count(_, _)
Count(q, c) == IF q = <<>> THEN 0 ELSE (IF Head(q) = c THEN 1 ELSE 0) + Count(Tail(q), c)

Trimmed(t) == t = <<>> \/ (~IsSpace(t[1]) /\ ~IsSpace(t[Len(t)]))

\* C7 (normalization): for every record handed to ai_is_of_interest the token
\* list is non-empty and the kind is one of int, str, other: an integer gives
\* kind int and the one token that reads back as that integer; a string with a
\* space gives kind str and one trimmed token per piece between single spaces,
\* empty pieces kept; a string without a space gives kind str and itself,
\* untrimmed; anything else gives kind other and its str().
C7_Normalization ==
  \A i \in 1..Len(results) :
     LET raw == active_ingredients[i].RLD
         tokens == results[i].rld_values
         kind == results[i].rld_arg_type
     IN  /\ Len(tokens) >= 1
         /\ kind \in Kinds
         /\ raw.t = "int" =>
              /\ kind = "int"
              /\ Len(tokens) = 1
              /\ \A k \in 1..Len(tokens[1]) : IsDigit(tokens[1][k])
              /\ int(tokens[1]).v = raw.n
         /\ (raw.t = "str" /\ Count(raw.s, " ") > 0) =>
              /\ kind = "str"
              /\ Len(tokens) = Count(raw.s, " ") + 1
              /\ \A k \in 1..Len(tokens) :
                   Trimmed(tokens[k]) /\ tokens[k] = strip(split(raw.s, " ")[k])
         /\ (raw.t = "str" /\ Count(raw.s, " ") = 0) =>
              kind = "str" /\ tokens = <<raw.s>>
         /\ raw.t = "none" =>
              kind = "other" /\ tokens = <<<<"N", "o", "n", "e">>>>

\* C7 witness: a string with a space that yields an empty token, and a string
\* without a space that keeps its leading whitespace, were normalized.
C7_Witness ==
  /\ \E i \in 1..Len(results) :
       /\ Count(active_ingredients[i].RLD.s, " ") > 0
       /\ \E k \in 1..Len(results[i].rld_values) : results[i].rld_values[k] = <<>>
  /\ \E i \in 1..Len(results) :
       /\ active_ingredients[i].RLD.t = "str"
       /\ Len(results[i].rld_values) = 1
       /\ IsSpace(results[i].rld_values[1][1])

\* s is an ISO-8601 datetime: YYYY-MM-DD, a 'T', a time
IsIsoDatetime(s) ==
  LET halves == split(s, "T")
      ymd == split(halves[1], "-")
  IN  /\ Len(halves) = 2
      /\ Len(ymd) = 3
      /\ int(ymd[1]).ok /\ int(ymd[1]).v \in 1..9999
      /\ int(ymd[2]).ok /\ int(ymd[2]).v \in 1..12
      /\ int(ymd[3]).ok /\ int(ymd[3]).v \in 1..31

\* the page holds 'Content current as of ... </time>' with an ISO datetime inside
HasFence(text) ==
  \E a, b \in 1..Len(text) :
     /\ a < b
     /\ text[a] = CCAO
     /\ text[b] = TimeEnd
     /\ \E c, d \in (a + 1)..(b - 1) : c <= d /\ IsIsoDatetime(SubSeq(text, c, d))

NothingProcessed ==
  /\ active_ingredients = <<>>
  /\ results = <<>>
  /\ fetches = <<>>
  /\ files = {}
  /\ Tallied = 0

\* C8 as stated (fatal baseline error): when the reference page fetched does not
\* hold the 'Content current as of ... </time>' fence with a parsable ISO
\* datetime, the run is aborted with nothing classified, fetched or written.
C8_Original ==
  (resp_text # <<>> /\ ~HasFence(resp_text)) => (pc = "aborted" /\ NothingProcessed)

\* the parser gets no integer year and month that make a date out of the page
NoYearMonth(text) ==
  LET ym == get_content_current_year_and_month(text)
  IN  \/ ym.year.t # "int"
      \/ ym.month.t # "int"
      \/ ym.year.n \notin 1..9999
      \/ ym.month.n \notin 1..12

\* C8 as amended: when the parser gets no integer year and month that make a
\* date out of the reference page, the run is aborted by an exception with
\* nothing scraped, classified, fetched or written.
C8_BaselineFatal ==
  (resp_text # <<>> /\ NoYearMonth(resp_text)) =>
     (pc = "aborted" /\ err # "" /\ NothingProcessed)

\* C8 witness: a run was aborted on a page that has the marker and whose year is
\* no integer (year and month come back as strings, not None).
C8_Witness ==
  /\ pc = "aborted"
  /\ resp_text # <<>>
  /\ NoYearMonth(resp_text)
  /\ InList(CCAO, resp_text)
  /\ get_content_current_year_and_month(resp_text).year.t = "str"

TodayRuns(ds) == {d.run : d \in {x \in ds : x.date = Today}}

\* the smallest positive N whose directory was not there at the launch
SmallestFree ==
  CHOOSE n \in 1..(Cardinality(existing) + 1) :
    /\ n \notin TodayRuns(existing)
    /\ \A m \in 1..(n - 1) : m \in TodayRuns(existing)

InCreate == pc \in {"mkdir", "mkdir_loop"}

\* C9 (directory naming): create_output_directory ends (it can always take a
\* step and its loop takes at most one turn per directory present), and what it
\* creates is YYYY-MM-DD-run-N for the smallest positive N whose directory was
\* not there, every directory present before being kept.
C9_DirectoryNaming ==
  /\ InCreate =>
       /\ ENABLED create_output_directory
       /\ run_number <= Cardinality(TodayRuns(existing)) + 1
       /\ run_number <= SmallestFree
       /\ dirs = existing
  /\ ~InCreate =>
       /\ directory_name = FormatName(SmallestFree)
       /\ run_number = SmallestFree
       /\ directory_name \notin existing
       /\ dirs = existing \cup {directory_name}

\* C9 witness: run-1 was there and run-2 was created.
C9_Witness ==
  /\ ~InCreate
  /\ FormatName(1) \in existing
  /\ directory_name = FormatName(2)
  /\ directory_name \in dirs

\* lines 60-71 run to the end on the rows q with every GET answered 200: the
\* exception that ended the loop ("" if none) and the files written
RECURSIVE RunAllOk(_, _, _)
RunAllOk(q, ledger, fs) ==
  IF q = <<>> THEN [err |-> "", files |-> fs]
  ELSE LET r == ai_is_of_interest(Head(q), current, rld_search_numbers)
       IN  IF r.err # "" THEN [err |-> r.err, files |-> fs]
           ELSE IF ~r.is_of_interest THEN RunAllOk(Tail(q), ledger, fs)
           ELSE LET d == download_specific_guidance_pdf(Head(q), fs, ledger, "ok")
                IN  IF d.err # "" THEN [err |-> d.err, files |-> fs]
                    ELSE RunAllOk(Tail(q), d.ledger, d.files)

AllOk == \A a \in 1..Len(fetches) : fetches[a].outcome = "ok"

\* C10 as stated (order-independence): a run of find_updated_ais that completed
\* with every GET answered 200 leaves the files that a run over any other
\* arrival order of the same records leaves.
C10_Original ==
  (FindUpdated /\ pc = "done" /\ AllOk) =>
     \A q \in Reorderings(active_ingredients) :
        RunAllOk(q, <<>>, {}) = [err |-> "", files |-> files]

\* the GET a answered with a response (any status), which was written
Written(a) == fetches[a].outcome \in {"ok", "http_error"}

\* C10 as amended: documents are attempted in record-arrival order, and the
\* record attempted for a raw key is the first-arriving record of interest with
\* that key; every file holds the response to the last answered GET of a URL
\* ending in its name. (Which URL a key or a file name ends with thus depends
\* on the arrival order.)
C10_ArrivalOrder ==
  FindUpdated =>
    /\ \A a, b \in 1..Len(fetches) : a < b => fetches[a].idx < fetches[b].idx
    /\ \A a \in 1..Len(fetches) :
         /\ Matches(fetches[a].idx)
         /\ fetches[a].key = active_ingredients[fetches[a].idx].RLD
         /\ fetches[a].url = active_ingredients[fetches[a].idx].URL
         /\ \A j \in 1..(fetches[a].idx - 1) :
              ~(active_ingredients[j].RLD = fetches[a].key /\ Matches(j))
    /\ \A f \in files :
         \E a \in 1..Len(fetches) :
            /\ Written(a)
            /\ fetches[a].url.s = f.url
            /\ filename(f.url) = f.name
            /\ f.body = (IF fetches[a].outcome = "ok" THEN "pdf" ELSE "error")
            /\ \A b \in (a + 1)..Len(fetches) :
                 Written(b) => filename(fetches[b].url.s) # f.name
    /\ \A a \in 1..Len(fetches) :
         Written(a) => \E f \in files : f.name = filename(fetches[a].url.s)
    /\ \A f, g \in files : f.name = g.name => f = g

\* C10 witness: a completed run in which two records of interest shared a raw
\* key and had different URLs, the first-arriving one taking the attempt.
C10_Witness ==
  /\ FindUpdated
  /\ pc = "done"
  /\ \E i, j \in 1..Len(active_ingredients) :
       /\ i < j
       /\ Matches(i) /\ Matches(j)
       /\ active_ingredients[i].RLD = active_ingredients[j].RLD
       /\ active_ingredients[i].URL # active_ingredients[j].URL
       /\ Attempted(i) /\ ~Attempted(j)

====
